---- MODULE Spec2Model ----
(***************************************************************************)
(* A model of src/src/Api.ts: the Api object's route registry, its         *)
(* start()/stop() lifecycle and the express middleware stack that init()   *)
(* assembles, with one request at a time walked through that stack.        *)
(*                                                                         *)
(* Two specifications are given.  SpecLifecycle explores every             *)
(* interleaving of a bounded number of start() and stop() calls on one     *)
(* Api object.  SpecDispatch is the program of src/unnamed/part_000 (one   *)
(* Api, one start()) serving requests.                                     *)
(***************************************************************************)
EXTENDS Integers, Sequences, FiniteSets, TLC

VARIABLES
    routeData,      \* Api.routeData: the declared routes
    handlers,       \* Api.handlers: routeData plus the compiled matcher
    handlerMap,     \* Api.handlerMap: "path-method" -> index into handlers
    httpServer,     \* Api.httpServer: the express stack, a sequence of layers
    running,        \* Api.running
    runningServer,  \* Api.runningServer: a server id, or NoServer
    servers,        \* the http.Server objects created by listen(), by id
    initCalls,      \* history: how many times init() has run
    listenCalls,    \* history: how many times httpServer.listen() was called
    crashed,        \* the process died of an unhandled 'error' event
    startPc,        \* position of each start() call
    startTarget,    \* the server each start() call's listen() made
    stopPc,         \* position of each stop() call
    stopTarget,     \* the server each stop() call asked to close
    rqPc,           \* position of the request in flight
    req,            \* the request: method, path, origin, ip, body
    res,            \* the response: sent, status, body
    cursor,         \* index of the next layer of httpServer to try
    err,            \* the error handed to next(err), or NoError
    matched,        \* guard stage: index of the route it resolved, or 0
    guardIdx,       \* guard stage: position in the route's guard list
    guardLog,       \* history: the guards evaluated, with their results
    trail,          \* history: the stages that ran for the request, in order
    log             \* the logger's entries for the request

lifeVars == <<routeData, handlers, handlerMap, httpServer, running,
              runningServer, servers, initCalls, listenCalls, crashed,
              startPc, startTarget, stopPc, stopTarget>>
reqVars  == <<rqPc, req, res, cursor, err, matched, guardIdx, guardLog,
              trail, log>>
vars     == <<lifeVars, reqVars>>

----------------------------------------------------------------------------
(* Bounds *)

MaxStartCalls == 2
MaxStopCalls  == 2

StartCalls == 1..MaxStartCalls
StopCalls  == 1..MaxStopCalls
ServerIds  == 1..MaxStartCalls

----------------------------------------------------------------------------
(* Types.ts *)

ApiMethod == {"POST", "PUT", "GET", "DELETE"}

Undefined == "undefined"
NoServer  == 0

(* A path is the sequence of its segments: "/" is <<>>, "/secret" is       *)
(* <<"secret">>.  A declared path is a sequence of tokens, a static        *)
(* segment or a named parameter (":id").                                   *)
Static(s) == [kind |-> "static", name |-> s]
Param(s)  == [kind |-> "param", name |-> s]

(* GuardResult of a guard that denies.  Guards are functions supplied by   *)
(* the route declarations; each is modelled by its name and the result it  *)
(* returns when it denies.  statusCode is optional in the interface: it   *)
(* is <<n>> when present and <<>> when absent.                             *)
Guards == {"keyGuard", "adminGuard", "looseGuard"}

GuardDenial(g) ==
    CASE g = "keyGuard"   -> [accessPermitted |-> FALSE, error |-> "missing key",
                              statusCode |-> <<401>>]
      [] g = "adminGuard" -> [accessPermitted |-> FALSE, error |-> "nope",
                              statusCode |-> <<403>>]
      [] OTHER            -> [accessPermitted |-> FALSE, error |-> "denied",
                              statusCode |-> <<>>]

GuardPermit == [accessPermitted |-> TRUE, error |-> Undefined,
                statusCode |-> <<>>]

----------------------------------------------------------------------------
(* Api.ts: the route declarations and the constructor *)

(* The routeData of the source: GET / -> getStatus, no guards. *)
SourceRoutes ==
    << [path |-> <<>>, method |-> "GET", routeImplementation |-> "getStatus",
        guards |-> <<>>] >>

(* A declaration list that uses what RouteData allows: guard chains,       *)
(* several methods on one path, a parameterised path.                      *)
GuardedRoutes ==
    << [path |-> <<>>, method |-> "GET", routeImplementation |-> "getStatus",
        guards |-> <<>>],
       [path |-> <<Static("secret")>>, method |-> "GET",
        routeImplementation |-> "getSecret",
        guards |-> <<"keyGuard", "adminGuard">>],
       [path |-> <<Static("secret")>>, method |-> "POST",
        routeImplementation |-> "postSecret",
        guards |-> <<"keyGuard", "adminGuard", "looseGuard">>],
       [path |-> <<Param("id")>>, method |-> "DELETE",
        routeImplementation |-> "deleteItem",
        guards |-> <<"adminGuard">>] >>

(* A declaration list RouteData also allows: the same (path, method)       *)
(* declared twice, and a parameterised path that takes the same requests   *)
(* as a static one declared before it.                                     *)
OverlappingRoutes ==
    << [path |-> <<Static("secret")>>, method |-> "GET",
        routeImplementation |-> "getSecret", guards |-> <<"keyGuard">>],
       [path |-> <<Static("secret")>>, method |-> "GET",
        routeImplementation |-> "getSecretOpen", guards |-> <<>>],
       [path |-> <<Param("id")>>, method |-> "GET",
        routeImplementation |-> "getItem", guards |-> <<"adminGuard">>] >>

RouteTables == {SourceRoutes, GuardedRoutes, OverlappingRoutes}

(* match(r.path, ...): the compiled matcher of a declared path.  It takes  *)
(* a request path and accepts it when the segments line up: a static       *)
(* token equals its segment, a parameter takes any one segment.            *)
routeMatchTest(pattern, path) ==
    /\ Len(pattern) = Len(path)
    /\ \A i \in 1..Len(pattern) :
          pattern[i].kind = "static" => pattern[i].name = path[i]

(* this.handlers = this.routeData.map(...) *)
MakeHandlers(rd) ==
    [i \in 1..Len(rd) |->
        [path |-> rd[i].path, method |-> rd[i].method,
         routeImplementation |-> rd[i].routeImplementation,
         guards |-> rd[i].guards, routeMatchTest |-> rd[i].path]]

(* new Map(this.handlers.map((h) => [`${h.path}-${h.method}`, h])): a     *)
(* later entry with the same key replaces an earlier one.                  *)
MakeHandlerMap(hs) ==
    [k \in {<<hs[i].path, hs[i].method>> : i \in 1..Len(hs)} |->
        CHOOSE i \in 1..Len(hs) :
            /\ <<hs[i].path, hs[i].method>> = k
            /\ \A j \in 1..Len(hs) :
                  <<hs[j].path, hs[j].method>> = k => j <= i]

----------------------------------------------------------------------------
(* Api.init: the express stack *)

Use(kind) == [kind |-> kind, method |-> "ALL", route |-> 0]

RouteLayer(hs, i) == [kind |-> "route", method |-> hs[i].method, route |-> i]

(* init() with the body parser registered ahead of the guard stage. *)
InitStackBodyFirst(hs) ==
    << Use("cors"),
       [kind |-> "cors", method |-> "OPTIONS", route |-> 0],
       Use("logging"),
       Use("json"),
       Use("guard") >>
    \o [i \in 1..Len(hs) |-> RouteLayer(hs, i)]
    \o << Use("error") >>

(* init() attaching the handlers from the last declaration to the first. *)
InitStackRoutesReversed(hs) ==
    << Use("cors"),
       [kind |-> "cors", method |-> "OPTIONS", route |-> 0],
       Use("logging"),
       Use("guard"),
       Use("json") >>
    \o [i \in 1..Len(hs) |-> RouteLayer(hs, Len(hs) + 1 - i)]
    \o << Use("error") >>

(* The layers init() registers, in the order of its statements. *)
InitStack(hs) ==
    << Use("cors"),
       [kind |-> "cors", method |-> "OPTIONS", route |-> 0],
       Use("logging"),
       Use("guard"),
       Use("json") >>
    \o [i \in 1..Len(hs) |-> RouteLayer(hs, i)]
    \o << Use("error") >>

----------------------------------------------------------------------------
(* The request in flight (none yet) *)

(* The Origin header: absent, or a string given by its pieces so that its  *)
(* prefix can be tested.                                                   *)
NoOrigin   == [present |-> FALSE, text |-> <<>>]
Origin(t)  == [present |-> TRUE, text |-> t]

(* req.ip: undefined, or a string given by its pieces (an IPv4-mapped      *)
(* IPv6 address is the prefix "::ffff:" and the IPv4 address).             *)
NoIp  == [present |-> FALSE, text |-> <<>>]
Ip(t) == [present |-> TRUE, text |-> t]

NoError   == [name |-> "none", message |-> "", status |-> 0, query |-> ""]
NoRequest == [method |-> "", path |-> <<>>, origin |-> NoOrigin, ip |-> NoIp,
              body |-> ""]

(* A response not yet written: statusCode is 200 until it is set. *)
NoResponse == [sent |-> FALSE, status |-> 200, body |-> <<>>]

ReqIdle ==
    /\ rqPc = "idle"
    /\ req = NoRequest
    /\ res = NoResponse
    /\ cursor = 0
    /\ err = NoError
    /\ matched = 0
    /\ guardIdx = 0
    /\ guardLog = <<>>
    /\ trail = <<>>
    /\ log = <<>>

----------------------------------------------------------------------------
(* The state after `new Api()` *)

Init ==
    /\ routeData \in RouteTables
    /\ handlers = MakeHandlers(routeData)
    /\ handlerMap = MakeHandlerMap(handlers)
    /\ httpServer = <<>>
    /\ running = FALSE
    /\ runningServer = NoServer
    /\ servers = [s \in ServerIds |-> "unused"]
    /\ initCalls = 0
    /\ listenCalls = 0
    /\ crashed = FALSE
    /\ startPc = [c \in StartCalls |-> "idle"]
    /\ startTarget = [c \in StartCalls |-> NoServer]
    /\ stopPc = [c \in StopCalls |-> "idle"]
    /\ stopTarget = [c \in StopCalls |-> NoServer]
    /\ ReqIdle

----------------------------------------------------------------------------
(* Api.start *)

PortFree == \A s \in ServerIds : servers[s] # "listening"

(* await this.init(): init has no await of its own, so its registrations   *)
(* all happen in the caller's turn; the await then yields.                 *)
RunInit ==
    /\ httpServer' = httpServer \o InitStack(handlers)
    /\ initCalls' = initCalls + 1

(* listen() whose result is not stored in this.runningServer. *)
ListenNotStored(c) ==
    /\ listenCalls' = listenCalls + 1
    /\ startTarget' = [startTarget EXCEPT ![c] = listenCalls + 1]
    /\ UNCHANGED runningServer
    /\ servers' = [servers EXCEPT ![listenCalls + 1] =
                      IF PortFree THEN "listening" ELSE "failed"]

(* this.runningServer = this.httpServer.listen(SERVER_PORT, () => res()):  *)
(* a new http.Server is made and stored; it binds SERVER_PORT if the port  *)
(* is free and fails with EADDRINUSE otherwise.                            *)
Listen(c) ==
    /\ listenCalls' = listenCalls + 1
    /\ startTarget' = [startTarget EXCEPT ![c] = listenCalls + 1]
    /\ runningServer' = listenCalls + 1
    /\ servers' = [servers EXCEPT ![listenCalls + 1] =
                      IF PortFree THEN "listening" ELSE "failed"]

(* start() is called: the code up to its first suspension. *)
StartCall(c) ==
    /\ ~crashed
    /\ startPc[c] = "idle"
    /\ \A d \in StartCalls : d < c => startPc[d] # "idle"
    /\ IF ~running
          THEN /\ RunInit
               /\ startPc' = [startPc EXCEPT ![c] = "awaitInit"]
               /\ UNCHANGED <<running, runningServer, servers, listenCalls,
                              startTarget>>
          ELSE /\ running' = TRUE
               /\ Listen(c)
               /\ startPc' = [startPc EXCEPT ![c] = "awaitListen"]
               /\ UNCHANGED <<httpServer, initCalls>>
    /\ UNCHANGED <<routeData, handlers, handlerMap, crashed, stopPc,
                   stopTarget, reqVars>>

(* start() resumes after `await this.init()`. *)
StartResume(c) ==
    /\ ~crashed
    /\ startPc[c] = "awaitInit"
    /\ running' = TRUE
    /\ Listen(c)
    /\ startPc' = [startPc EXCEPT ![c] = "awaitListen"]
    /\ UNCHANGED <<routeData, handlers, handlerMap, httpServer, initCalls,
                   crashed, stopPc, stopTarget, reqVars>>

(* The callback handed to listen() runs once the server listens. *)
ListenCallback(c) ==
    /\ ~crashed
    /\ startPc[c] = "awaitListen"
    /\ servers[startTarget[c]] \in {"listening", "closing", "closed"}
    /\ startPc' = [startPc EXCEPT ![c] = "done"]
    /\ UNCHANGED <<routeData, handlers, handlerMap, httpServer, running,
                   runningServer, servers, initCalls, listenCalls, crashed,
                   startTarget, stopPc, stopTarget, reqVars>>

(* listen() failed with EADDRINUSE.  The server emits 'error'.  Under      *)
(* express 4 nothing listens for it and the process dies; express 5 hands  *)
(* the error to the listen callback, which here resolves start().          *)
ListenFailed(c) ==
    /\ ~crashed
    /\ startPc[c] = "awaitListen"
    /\ servers[startTarget[c]] = "failed"
    /\ \/ /\ crashed' = TRUE
          /\ UNCHANGED startPc
       \/ /\ startPc' = [startPc EXCEPT ![c] = "done"]
          /\ UNCHANGED crashed
    /\ UNCHANGED <<routeData, handlers, handlerMap, httpServer, running,
                   runningServer, servers, initCalls, listenCalls,
                   startTarget, stopPc, stopTarget, reqVars>>

----------------------------------------------------------------------------
(* Api.stop *)

(* this.runningServer.close(() => res()): the server stops listening at    *)
(* once and frees the port; its callback waits for the 'close' event.      *)
Close(s) ==
    servers' = [servers EXCEPT ![s] =
                   IF servers[s] = "listening" THEN "closing" ELSE servers[s]]

(* stop() is called while running: the code up to its await.  Without a    *)
(* stored server the promise it awaits is never resolved.                  *)
StopRunning(c) ==
    /\ IF runningServer # NoServer
          THEN /\ Close(runningServer)
               /\ stopTarget' = [stopTarget EXCEPT ![c] = runningServer]
               /\ stopPc' = [stopPc EXCEPT ![c] = "awaitClose"]
          ELSE /\ stopPc' = [stopPc EXCEPT ![c] = "hung"]
               /\ UNCHANGED <<servers, stopTarget>>
    /\ UNCHANGED <<running, runningServer, httpServer>>

(* stop() without its `if (this.running)` test. *)
StopUnguarded(c) == StopRunning(c)

(* stop() is called while not running: nothing is done. *)
StopNotRunning(c) ==
    /\ stopPc' = [stopPc EXCEPT ![c] = "done"]
    /\ UNCHANGED <<running, runningServer, servers, stopTarget, httpServer>>

StopCall(c) ==
    /\ ~crashed
    /\ stopPc[c] = "idle"
    /\ \A d \in StopCalls : d < c => stopPc[d] # "idle"
    /\ IF running THEN StopRunning(c) ELSE StopNotRunning(c)
    /\ UNCHANGED <<routeData, handlers, handlerMap, initCalls, listenCalls,
                   crashed, startPc, startTarget, reqVars>>

(* A closing server has no connection left: it emits 'close'. *)
ServerClosed(s) ==
    /\ ~crashed
    /\ servers[s] = "closing"
    /\ rqPc \in {"idle", "done"}
    /\ servers' = [servers EXCEPT ![s] = "closed"]
    /\ UNCHANGED <<routeData, handlers, handlerMap, httpServer, running,
                   runningServer, initCalls, listenCalls, crashed, startPc,
                   startTarget, stopPc, stopTarget, reqVars>>

(* stop() resumes after its await: the close callback has run.  close() on *)
(* a server that failed to listen still runs the callback, with an error,  *)
(* but only after that server's 'error' event was delivered.               *)
StopResume(c) ==
    /\ ~crashed
    /\ stopPc[c] = "awaitClose"
    /\ servers[stopTarget[c]] \in {"closed", "failed"}
    /\ servers[stopTarget[c]] = "failed" =>
          \A d \in StartCalls : startTarget[d] = stopTarget[c] => startPc[d] = "done"
    /\ running' = FALSE
    /\ stopPc' = [stopPc EXCEPT ![c] = "done"]
    /\ UNCHANGED <<routeData, handlers, handlerMap, httpServer,
                   runningServer, servers, initCalls, listenCalls, crashed,
                   startPc, startTarget, stopTarget, reqVars>>

----------------------------------------------------------------------------
(* Requests *)

Methods == ApiMethod \cup {"OPTIONS", "HEAD"}

Paths == {<<>>, <<"secret">>, <<"item">>, <<"a", "b">>}

(* Constants.ts is not among the sources: the allow-list is configuration. *)
CORS_WHITELIST == {<<"https://app.example">>}

Origins == {NoOrigin,
            Origin(<<>>),
            Origin(<<"https://app.example">>),
            Origin(<<"http://localhost", ":3000">>),
            Origin(<<"http://localhost", ".evil.example">>),
            Origin(<<"http://evil.example">>)}

Ips == {NoIp, Ip(<<"203.0.113.5">>), Ip(<<"::ffff:", "203.0.113.5">>)}

Bodies == {"none", "json", "malformed", "oversized"}

(* The failure values a guard or a handler may throw or reject with. *)
Error(name, message) ==
    [name |-> name, message |-> message, status |-> 0, query |-> ""]

Failures == {Error("Error", "boom"),
             [name |-> "Error", message |-> "db failed", status |-> 0,
              query |-> "SELECT 1"]}

(* err.toString() of an Error object *)
ErrToString(e) == e.name \o ": " \o e.message

Responded(status, body) == [sent |-> TRUE, status |-> status, body |-> body]

Entry(stage, route, how) == [stage |-> stage, route |-> route, how |-> how]

(* A connection is accepted by a listening server. *)
Receive(m, p, o, ip, b) ==
    /\ ~crashed
    /\ rqPc = "idle"
    /\ \E s \in ServerIds : servers[s] = "listening"
    /\ req' = [method |-> m, path |-> p, origin |-> o, ip |-> ip, body |-> b]
    /\ res' = NoResponse
    /\ rqPc' = "dispatch"
    /\ cursor' = 1
    /\ err' = NoError
    /\ matched' = 0
    /\ guardIdx' = 0
    /\ guardLog' = <<>>
    /\ trail' = <<>>
    /\ log' = <<>>
    /\ UNCHANGED lifeVars

----------------------------------------------------------------------------
(* express: which layer of the stack next() runs *)

(* A route layer made by get/post/put/delete takes the requests of its     *)
(* method (a GET layer also takes HEAD) whose path its pattern matches;    *)
(* options('*') takes every OPTIONS request; a use() layer takes every     *)
(* request.  With an error pending only the error handlers run, and they   *)
(* run only then.                                                          *)
Applies(layer, r, e) ==
    IF layer.kind = "error"
       THEN e # NoError
       ELSE /\ e = NoError
            /\ \/ layer.method = "ALL"
               \/ layer.method = r.method
               \/ layer.method = "GET" /\ r.method = "HEAD"
            /\ layer.kind = "route" =>
                  routeMatchTest(handlers[layer.route].path, r.path)

NextIdx(from, r, e) ==
    LET cand == {i \in from..Len(httpServer) : Applies(httpServer[i], r, e)}
    IN  IF cand = {} THEN Len(httpServer) + 1
        ELSE CHOOSE i \in cand : \A j \in cand : i <= j

(* The layer about to run for the request in flight, if any. *)
AtLayer(kind) ==
    /\ ~crashed
    /\ rqPc = "dispatch"
    /\ NextIdx(cursor, req, err) <= Len(httpServer)
    /\ httpServer[NextIdx(cursor, req, err)].kind = kind

Here == NextIdx(cursor, req, err)

(* next() and next(e): go on after the layer that ran. *)
CallNext(e) ==
    /\ cursor' = Here + 1
    /\ err' = e
    /\ rqPc' = "dispatch"

(* The stage wrote the response and did not call next(). *)
Finish(r) ==
    /\ res' = r
    /\ rqPc' = "done"
    /\ UNCHANGED <<cursor, err>>

----------------------------------------------------------------------------
(* Api.init: the stages *)

Stamp(stage, route, how) == trail' = Append(trail, Entry(stage, route, how))

(* corsOptions.origin without the localhost prefix test. *)
OriginAllowedListed(o) ==
    \/ ~o.present
    \/ o.text = <<>>
    \/ o.text \in CORS_WHITELIST

(* corsOptions.origin *)
OriginAllowed(o) ==
    \/ ~o.present
    \/ o.text = <<>>
    \/ o.text \in CORS_WHITELIST
    \/ Len(o.text) >= 1 /\ o.text[1] = "http://localhost"

(* cors with preflightContinue: the OPTIONS request is passed on. *)
PreflightContinue ==
    /\ CallNext(NoError)
    /\ Stamp("cors", 0, "pass")
    /\ UNCHANGED res

(* cors answers a preflight itself: 204, no body, next() is not called. *)
Preflight ==
    /\ Finish(Responded(204, <<>>))
    /\ Stamp("cors", 0, "preflight")

(* The refusal is logged, and cors goes on without an error. *)
CorsRefuseContinue ==
    /\ log' = Append(log, [level |-> "error",
                   msg |-> <<"Request with origin of">> \o req.origin.text
                           \o <<"is not allowed by CORS!">>])
    /\ CallNext(NoError)
    /\ Stamp("cors", 0, "refused")
    /\ UNCHANGED res

(* The else branch of corsOptions.origin: logger.error, then               *)
(* callback(new Error('Not allowed by CORS')), which cors hands to         *)
(* next(err).                                                              *)
CorsRefuse ==
    /\ log' = Append(log, [level |-> "error",
                   msg |-> <<"Request with origin of">> \o req.origin.text
                           \o <<"is not allowed by CORS!">>])
    /\ CallNext(Error("Error", "Not allowed by CORS"))
    /\ Stamp("cors", 0, "refused")
    /\ UNCHANGED res

(* cors(corsOptions): a refused origin is logged and handed to next(err);  *)
(* a preflight (OPTIONS) is answered here with 204; any other request      *)
(* gets its headers and goes on.                                           *)
CorsStage ==
    /\ AtLayer("cors")
    /\ IF ~OriginAllowed(req.origin)
          THEN CorsRefuse
          ELSE IF req.method = "OPTIONS"
          THEN /\ Preflight
               /\ UNCHANGED log
          ELSE /\ CallNext(NoError)
               /\ Stamp("cors", 0, "pass")
               /\ UNCHANGED <<res, log>>
    /\ UNCHANGED <<req, matched, guardIdx, guardLog, lifeVars>>

(* Express runs a layer inside try/catch: what a layer throws in its own   *)
(* turn goes to next(err).                                                 *)
LayerCatch(e) == CallNext(e)

(* A rejection that nothing catches: the request is never answered. *)
Unhandled(e) ==
    /\ rqPc' = "done"
    /\ UNCHANGED <<cursor, err>>

(* asyncWrapper: Promise.resolve(fn(req, res, next)).catch(next) *)
AsyncWrapperCatch(e) == CallNext(e)

(* ip.substr(0, 7) == '::ffff:' ? ip.substr(7) : ip *)
NormaliseIp(t) ==
    IF Len(t) >= 1 /\ t[1] = "::ffff:" THEN Tail(t) ELSE t

(* loggingMiddleware without its last line: the request is logged and      *)
(* next() is never called.                                                 *)
LoggingStageNoNext ==
    /\ AtLayer("logging")
    /\ log' = Append(log, [level |-> "info",
                   msg |-> <<"Recieved request for", req.method>>
                           \o req.path \o <<"from">>
                           \o NormaliseIp(req.ip.text)])
    /\ rqPc' = "done"
    /\ Stamp("logging", 0, "pass")
    /\ UNCHANGED <<cursor, err, req, res, matched, guardIdx, guardLog,
                   lifeVars>>

(* loggingMiddleware *)
LoggingStage ==
    /\ AtLayer("logging")
    /\ IF ~req.ip.present
          THEN /\ AsyncWrapperCatch(Error("TypeError",
                      "Cannot read properties of undefined (reading 'substr')"))
               /\ Stamp("logging", 0, "error")
               /\ UNCHANGED log
          ELSE /\ log' = Append(log, [level |-> "info",
                          msg |-> <<"Recieved request for", req.method>>
                                  \o req.path \o <<"from">>
                                  \o NormaliseIp(req.ip.text)])
               /\ CallNext(NoError)
               /\ Stamp("logging", 0, "pass")
    /\ UNCHANGED <<req, res, matched, guardIdx, guardLog, lifeVars>>

(* express.json({ limit: '100MB' }) *)
JsonStage ==
    /\ AtLayer("json")
    /\ CASE req.body = "malformed" ->
               /\ CallNext([name |-> "SyntaxError",
                            message |-> "Unexpected token", status |-> 400,
                            query |-> ""])
               /\ Stamp("json", 0, "malformed")
         [] req.body = "oversized" ->
               /\ CallNext([name |-> "PayloadTooLargeError",
                            message |-> "request entity too large",
                            status |-> 413, query |-> ""])
               /\ Stamp("json", 0, "oversized")
         [] OTHER ->
               /\ CallNext(NoError)
               /\ Stamp("json", 0, "pass")
    /\ UNCHANGED <<req, res, matched, guardIdx, guardLog, log, lifeVars>>

----------------------------------------------------------------------------
(* Api.guardMiddleware *)

(* The loop without its break: the last declared route that takes the     *)
(* request.                                                                *)
FindRouteLast(hs, path, method) ==
    LET hit == {i \in 1..Len(hs) :
                   /\ routeMatchTest(hs[i].routeMatchTest, path)
                   /\ hs[i].method = method}
    IN  IF hit = {} THEN 0 ELSE CHOOSE i \in hit : \A j \in hit : i >= j

(* for (const handler of this.handlers) { if (...) { ...; break; } }:      *)
(* the first declared route whose matcher takes the path and whose method  *)
(* is the request's; 0 when the loop ends without one.                     *)
FindRoute(hs, path, method) ==
    LET hit == {i \in 1..Len(hs) :
                   /\ routeMatchTest(hs[i].routeMatchTest, path)
                   /\ hs[i].method = method}
    IN  IF hit = {} THEN 0 ELSE CHOOSE i \in hit : \A j \in hit : i <= j

(* The first declared route whose matcher takes the path, whatever its     *)
(* method.                                                                 *)
ResolveByPath(hs, path, method) ==
    LET hit == {i \in 1..Len(hs) : routeMatchTest(hs[i].routeMatchTest, path)}
    IN  IF hit = {} THEN 0 ELSE CHOOSE i \in hit : \A j \in hit : i <= j

(* The loop and the test that follows it:                                  *)
(* if (!routeInfo || req.method !== routeInfo.method || !path) -> 404      *)
Resolve(hs, path, method) ==
    LET i == FindRoute(hs, path, method)
    IN  IF i = 0 \/ method # hs[i].method THEN 0 ELSE i

NotFound == Responded(404, <<"error", "Unknown route">>)

(* A lookup that moves the declarations round in this.handlers. *)
LookupReorders ==
    /\ handlers' = Tail(handlers) \o <<Head(handlers)>>
    /\ UNCHANGED <<routeData, handlerMap, httpServer, running,
                   runningServer, servers, initCalls, listenCalls, crashed,
                   startPc, startTarget, stopPc, stopTarget>>

(* The lookup reads this.handlers and each routeMatchTest; what it assigns *)
(* are its locals path and routeInfo.                                      *)
LookupReadsOnly == UNCHANGED lifeVars

(* The stage up to its first await: the OPTIONS exemption, the lookup,     *)
(* the 404, and the start of the guard loop.                               *)
GuardEnter ==
    /\ AtLayer("guard")
    /\ IF req.method = "OPTIONS"
          THEN /\ CallNext(NoError)
               /\ Stamp("guard", 0, "exempt")
               /\ UNCHANGED <<res, matched, guardIdx>>
          ELSE LET i == Resolve(handlers, req.path, req.method) IN
               IF i = 0
               THEN /\ Finish(NotFound)
                    /\ Stamp("guard", 0, "404")
                    /\ UNCHANGED <<matched, guardIdx>>
               ELSE IF handlers[i].guards = <<>>
               THEN /\ CallNext(NoError)
                    /\ Stamp("guard", i, "pass")
                    /\ matched' = i
                    /\ UNCHANGED <<res, guardIdx>>
               ELSE /\ rqPc' = "guard"
                    /\ matched' = i
                    /\ guardIdx' = 1
                    /\ UNCHANGED <<res, cursor, err, trail>>
    /\ LookupReadsOnly
    /\ UNCHANGED <<req, guardLog, log>>

(* A guard permitted: the loop goes on, and next() follows the last guard. *)
GuardPermitted(g) ==
    IF guardIdx = Len(handlers[matched].guards)
       THEN /\ CallNext(NoError)
            /\ Stamp("guard", matched, "pass")
            /\ UNCHANGED <<res, guardIdx>>
       ELSE /\ guardIdx' = guardIdx + 1
            /\ UNCHANGED <<res, rqPc, cursor, err, trail>>

(* A guard denied and the loop went on: the response is written, the       *)
(* return is missing.                                                      *)
GuardDeniedNoReturn(g) ==
    /\ res' = Responded(IF GuardDenial(g).statusCode = <<>> THEN 500
                        ELSE GuardDenial(g).statusCode[1],
                        <<"error", GuardDenial(g).error>>)
    /\ IF guardIdx = Len(handlers[matched].guards)
          THEN /\ CallNext(NoError)
               /\ Stamp("guard", matched, "pass")
               /\ UNCHANGED guardIdx
          ELSE /\ guardIdx' = guardIdx + 1
               /\ UNCHANGED <<rqPc, cursor, err, trail>>

(* A denial whose missing statusCode is taken as the response's default    *)
(* status.                                                                 *)
GuardDeniedDefaultStatus(g) ==
    /\ Finish(Responded(IF GuardDenial(g).statusCode = <<>> THEN 200
                        ELSE GuardDenial(g).statusCode[1],
                        <<"error", GuardDenial(g).error>>))
    /\ Stamp("guard", matched, "deny")
    /\ UNCHANGED guardIdx

(* A guard denied: res.status(statusCode!).send({ error: error! }); return *)
(* Without a statusCode, send() throws (the status undefined is invalid)   *)
(* before anything is written, and the stage's promise rejects.            *)
GuardDenied(g) ==
    IF GuardDenial(g).statusCode = <<>>
       THEN /\ AsyncWrapperCatch(Error("RangeError",
                                       "Invalid status code: undefined"))
            /\ Stamp("guard", matched, "error")
            /\ UNCHANGED <<res, guardIdx>>
       ELSE /\ Finish(Responded(GuardDenial(g).statusCode[1],
                                <<"error", GuardDenial(g).error>>))
            /\ Stamp("guard", matched, "deny")
            /\ UNCHANGED guardIdx

(* The guard threw, or its promise rejected. *)
GuardFailed(g, e) ==
    /\ AsyncWrapperCatch(e)
    /\ Stamp("guard", matched, "error")
    /\ UNCHANGED <<res, guardIdx>>

(* One turn of the loop: await guard(req, res, path, req.method) *)
GuardEval(outcome, e) ==
    /\ ~crashed
    /\ rqPc = "guard"
    /\ LET g == handlers[matched].guards[guardIdx] IN
          /\ guardLog' = Append(guardLog, [guard |-> g, outcome |-> outcome])
          /\ CASE outcome = "permit" -> GuardPermitted(g)
               [] outcome = "deny"   -> GuardDenied(g)
               [] OTHER              -> GuardFailed(g, e)
    /\ UNCHANGED <<req, matched, log, lifeVars>>

----------------------------------------------------------------------------
(* The route handlers and the error handler *)

(* Api.getStatus *)
getStatus == Responded(200, <<"status", "ok">>)

HandlerResponse(impl) ==
    IF impl = "getStatus" THEN getStatus ELSE Responded(200, <<"result", impl>>)

(* asyncWrapper(handler.routeImplementation.bind(this)) is called.  A      *)
(* handler answers, throws in its own turn, or returns a promise that      *)
(* settles later; getStatus answers.                                       *)
HandlerStage(outcome, e) ==
    /\ AtLayer("route")
    /\ LET r == httpServer[Here].route
           impl == handlers[r].routeImplementation
       IN  /\ impl = "getStatus" => outcome = "respond"
           /\ Stamp("handler", r, outcome)
           /\ CASE outcome = "respond" -> Finish(HandlerResponse(impl))
                [] outcome = "throw" ->
                      /\ LayerCatch(e)
                      /\ UNCHANGED res
                [] outcome = "respondThenThrow" ->
                      /\ res' = HandlerResponse(impl)
                      /\ LayerCatch(e)
                [] OTHER ->
                      /\ rqPc' = "handler"
                      /\ cursor' = Here
                      /\ UNCHANGED <<res, err>>
    /\ UNCHANGED <<req, matched, guardIdx, guardLog, log, lifeVars>>

(* The promise a handler returned settles. *)
HandlerSettle(outcome, e) ==
    /\ ~crashed
    /\ rqPc = "handler"
    /\ LET r == httpServer[cursor].route
           impl == handlers[r].routeImplementation
       IN  /\ Stamp("settle", r, outcome)
           /\ CASE outcome = "respond" -> Finish(HandlerResponse(impl))
                [] outcome = "reject" ->
                      /\ AsyncWrapperCatch(e)
                      /\ UNCHANGED res
                [] OTHER ->
                      /\ res' = HandlerResponse(impl)
                      /\ AsyncWrapperCatch(e)
    /\ UNCHANGED <<req, matched, guardIdx, guardLog, log, lifeVars>>

(* The error handler init() registers last.  send() on a response that     *)
(* was already sent throws, and express hands that to next(err).           *)
ErrorHandler ==
    /\ AtLayer("error")
    /\ log' = Append(log, [level |-> "error",
                 msg |-> <<ErrToString(err)>>
                         \o (IF err.query # "" THEN <<err.query>> ELSE <<>>)])
    /\ IF res.sent
          THEN /\ LayerCatch(Error("Error",
                      "Cannot set headers after they are sent to the client"))
               /\ Stamp("error", 0, "afterSent")
               /\ UNCHANGED res
          ELSE /\ Finish(Responded(500, <<"error", ErrToString(err)>>))
               /\ Stamp("error", 0, "respond")
    /\ UNCHANGED <<req, matched, guardIdx, guardLog, lifeVars>>

(* express's own last step, when no layer is left: 404 without an error,   *)
(* the error's status (or 500) with one; nothing if a response was sent.   *)
FinalHandler ==
    /\ ~crashed
    /\ rqPc = "dispatch"
    /\ Here > Len(httpServer)
    /\ res' = IF res.sent THEN res
              ELSE IF err # NoError
              THEN Responded(IF err.status # 0 THEN err.status ELSE 500,
                             <<"html", ErrToString(err)>>)
              ELSE Responded(404, <<"Cannot", req.method>> \o req.path)
    /\ rqPc' = "done"
    /\ Stamp("final", 0, IF err # NoError THEN "error" ELSE "404")
    /\ UNCHANGED <<req, cursor, err, matched, guardIdx, guardLog, log,
                   lifeVars>>

(* The request is over and its connection closes: nothing of it is kept. *)
ConnectionEnd ==
    /\ ~crashed
    /\ rqPc = "done"
    /\ rqPc' = "idle"
    /\ req' = NoRequest
    /\ res' = NoResponse
    /\ cursor' = 0
    /\ err' = NoError
    /\ matched' = 0
    /\ guardIdx' = 0
    /\ guardLog' = <<>>
    /\ trail' = <<>>
    /\ log' = <<>>
    /\ UNCHANGED lifeVars

GuardOutcomes   == {"permit", "deny", "reject"}
HandlerOutcomes == {"respond", "throw", "respondThenThrow", "pending"}
SettleOutcomes  == {"respond", "reject", "respondThenReject"}

----------------------------------------------------------------------------
(* Every interleaving of the start() and stop() calls on one Api *)

NextLifecycle ==
    \/ \E c \in StartCalls : StartCall(c)
    \/ \E c \in StartCalls : StartResume(c)
    \/ \E c \in StartCalls : ListenCallback(c)
    \/ \E c \in StartCalls : ListenFailed(c)
    \/ \E c \in StopCalls : StopCall(c)
    \/ \E s \in ServerIds : ServerClosed(s)
    \/ \E c \in StopCalls : StopResume(c)

SpecLifecycle == Init /\ [][NextLifecycle]_vars

(* The event loop delivers what is pending: a closing server with no       *)
(* connection left emits 'close', a failed listen emits 'error', and a     *)
(* close callback that is due runs.                                        *)
SpecLifecycleFair ==
    /\ Init /\ [][NextLifecycle]_vars
    /\ \A s \in ServerIds : WF_vars(ServerClosed(s))
    /\ \A c \in StartCalls : WF_vars(ListenFailed(c))
    /\ \A c \in StopCalls : WF_vars(StopResume(c))

----------------------------------------------------------------------------
(* Lifecycle properties *)

BoundServers == {s \in ServerIds : servers[s] = "listening"}

(* C5: a start() call made while the Api is running (the second of two     *)
(* start() calls in succession) is a no-op: it does not call listen()      *)
(* again and does not replace the stored server handle, so one listener    *)
(* stays bound.                                                            *)
C5_SecondStartIsNoOp ==
    [][\A c \in StartCalls :
          (running /\ startPc[c] = "idle" /\ startPc'[c] # "idle")
             => /\ listenCalls' = listenCalls
                /\ runningServer' = runningServer
                /\ Cardinality(BoundServers') = 1]_vars

(* C6: whatever the order and interleaving of start() and stop() calls,    *)
(* init() runs at most once, so the express stack never holds a stage      *)
(* twice.                                                                  *)
C6_InitAtMostOnce ==
    /\ initCalls <= 1
    /\ \A i, j \in 1..Len(httpServer) :
          httpServer[i] = httpServer[j] => i = j

(* C7: a stop() call made while the Api is not running resolves at once    *)
(* and changes neither the running flag, nor the stored server handle,     *)
(* nor the servers, nor the registered pipeline.                           *)
C7_StopWhenNotRunningIsNoOp ==
    [][\A c \in StopCalls :
          (~running /\ stopPc[c] = "idle" /\ stopPc'[c] # "idle")
             => /\ stopPc'[c] = "done"
                /\ UNCHANGED <<running, runningServer, servers, httpServer,
                               stopTarget>>]_vars

(* C7 witness: stop() was called before any start() and has resolved; the  *)
(* Api is as the constructor left it.                                      *)
C7_Witness ==
    /\ stopPc[1] = "done"
    /\ stopTarget[1] = NoServer
    /\ startPc[1] = "idle"
    /\ ~running
    /\ runningServer = NoServer
    /\ httpServer = <<>>

(* C8: when a stop() call that had to close a server resolves, that server *)
(* is fully closed, the running flag is false, and no server opened by a   *)
(* start() call so far is still bound.                                     *)
C8_StopLeavesNoListener ==
    [][\A c \in StopCalls :
          (stopPc[c] = "awaitClose" /\ stopPc'[c] = "done")
             => /\ servers'[stopTarget[c]] \notin {"listening", "closing"}
                /\ ~running'
                /\ BoundServers' = {}]_vars

----------------------------------------------------------------------------
(* The program of src/unnamed/part_000: one Api, one start(), requests *)

NextDispatch ==
    \/ StartCall(1)
    \/ StartResume(1)
    \/ ListenCallback(1)
    \/ \E m \in Methods, p \in Paths, o \in Origins, ip \in Ips, b \in Bodies :
          Receive(m, p, o, ip, b)
    \/ CorsStage
    \/ LoggingStage
    \/ GuardEnter
    \/ \E o \in GuardOutcomes, e \in Failures : GuardEval(o, e)
    \/ JsonStage
    \/ \E o \in HandlerOutcomes, e \in Failures : HandlerStage(o, e)
    \/ \E o \in SettleOutcomes, e \in Failures : HandlerSettle(o, e)
    \/ ErrorHandler
    \/ FinalHandler
    \/ ConnectionEnd

SpecDispatch == Init /\ [][NextDispatch]_vars

----------------------------------------------------------------------------
(* Dispatch properties *)

Ran(stages) == {i \in 1..Len(trail) : trail[i].stage \in stages}

Declared(path, method) ==
    \E i \in 1..Len(handlers) :
        /\ routeMatchTest(handlers[i].path, path)
        /\ handlers[i].method = method

AllPermitted(route) ==
    /\ Len(guardLog) = Len(handlers[route].guards)
    /\ \A k \in 1..Len(guardLog) :
          /\ guardLog[k].guard = handlers[route].guards[k]
          /\ guardLog[k].outcome = "permit"

(* C1: for a request other than OPTIONS, the body parser and the handlers  *)
(* run only after the guard stage has resolved the request to a declared   *)
(* route and every guard of that route has permitted; after a 404 or a     *)
(* denial of the guard stage neither the body parser nor a handler runs.   *)
C1_GuardBeforeBodyAndHandler ==
    req.method # "OPTIONS" =>
       /\ \A i \in Ran({"json", "handler", "settle"}) :
             /\ matched # 0
             /\ routeMatchTest(handlers[matched].path, req.path)
             /\ handlers[matched].method = req.method
             /\ AllPermitted(matched)
             /\ \E j \in 1..(i - 1) : trail[j] = Entry("guard", matched, "pass")
       /\ (\E j \in Ran({"guard"}) : trail[j].how \in {"404", "deny"})
             => Ran({"json", "handler", "settle"}) = {}

(* C1 witness: a request to a guarded route was answered by its handler. *)
C1_Witness ==
    /\ rqPc = "done"
    /\ req.method = "GET" /\ req.path = <<"secret">>
    /\ Len(guardLog) = 2
    /\ Ran({"json"}) # {} /\ Ran({"handler"}) # {}
    /\ res = Responded(200, <<"result", "getSecret">>)

(* C2: the guards of the resolved route are evaluated one at a time in     *)
(* declared order; nothing is evaluated after the first guard that does    *)
(* not permit; and when guard k denies (with the statusCode a denial       *)
(* carries) the response is guard k's statusCode and {error: its error}.   *)
C2_GuardsInOrderShortCircuit ==
    /\ matched = 0 => guardLog = <<>>
    /\ matched # 0 =>
          LET gs == handlers[matched].guards IN
          /\ Len(guardLog) <= Len(gs)
          /\ \A k \in 1..Len(guardLog) : guardLog[k].guard = gs[k]
          /\ \A k \in 1..(Len(guardLog) - 1) : guardLog[k].outcome = "permit"
          /\ rqPc = "guard" => guardIdx = Len(guardLog) + 1
          /\ \A k \in 1..Len(guardLog) :
                (guardLog[k].outcome = "deny"
                    /\ GuardDenial(gs[k]).statusCode # <<>>)
                   => /\ rqPc = "done"
                      /\ res = Responded(GuardDenial(gs[k]).statusCode[1],
                                         <<"error", GuardDenial(gs[k]).error>>)
                      /\ Ran({"json", "handler", "settle", "error"}) = {}

(* C2 witness: the second of three guards denied; the third was not        *)
(* evaluated and the response is the second guard's.                       *)
C2_Witness ==
    /\ rqPc = "done"
    /\ matched # 0
    /\ handlers[matched].guards = <<"keyGuard", "adminGuard", "looseGuard">>
    /\ guardLog = << [guard |-> "keyGuard", outcome |-> "permit"],
                     [guard |-> "adminGuard", outcome |-> "deny"] >>
    /\ res = Responded(403, <<"error", "nope">>)

(* C3: a request other than OPTIONS that reaches the guard stage (its      *)
(* origin is allowed and the logging stage did not fail) and that no       *)
(* declared route takes, by path and method together, is answered          *)
(* 404 {error: "Unknown route"}; no guard and no handler runs for it.      *)
C3_UnknownRouteIs404 ==
    (/\ rqPc = "done"
     /\ req.method # "OPTIONS"
     /\ OriginAllowed(req.origin)
     /\ req.ip.present
     /\ ~Declared(req.path, req.method))
       => /\ res = NotFound
          /\ guardLog = <<>>
          /\ Ran({"json", "handler", "settle", "error", "final"}) = {}

(* C3 witness: POST / against the source's routes, where only GET / is     *)
(* declared, was answered 404.                                             *)
C3_Witness ==
    /\ rqPc = "done"
    /\ routeData = SourceRoutes
    /\ req.method = "POST" /\ req.path = <<>>
    /\ res = NotFound

(* C4: for an OPTIONS request no guard is evaluated and the guard stage    *)
(* answers neither 404 nor a denial, whatever the guards of the routes on  *)
(* its path; with an allowed origin it is answered 204 by the CORS stage.  *)
C4_OptionsBypassGuards ==
    req.method = "OPTIONS" =>
       /\ guardLog = <<>>
       /\ \A j \in Ran({"guard"}) : trail[j].how \notin {"404", "deny"}
       /\ rqPc = "done" =>
             /\ res.status # 404
             /\ res.status \notin {401, 403}
             /\ OriginAllowed(req.origin) => res = Responded(204, <<>>)

(* C4 witness: OPTIONS /secret, a path whose routes are all guarded, was   *)
(* answered 204.                                                           *)
C4_Witness ==
    /\ rqPc = "done"
    /\ routeData = GuardedRoutes
    /\ req.method = "OPTIONS" /\ req.path = <<"secret">>
    /\ res = Responded(204, <<>>)

HandlerFailed ==
    \/ \E i \in Ran({"handler"}) : trail[i].how = "throw"
    \/ \E i \in Ran({"settle"}) : trail[i].how = "reject"

(* C9: a handler that throws and a handler whose promise rejects, with the *)
(* same failure value, both reach the error handler, once, and get the     *)
(* same response: 500 {error: the failure's string form}.                  *)
C9_SyncAsyncSameErrorResponse ==
    (rqPc = "done" /\ HandlerFailed)
       => /\ err \in Failures
          /\ res = Responded(500, <<"error", ErrToString(err)>>)
          /\ Cardinality(Ran({"error"})) = 1
          /\ Ran({"final"}) = {}

(* C9 witness: a handler's promise rejected and the request was answered   *)
(* 500 by the error handler.                                               *)
C9_Witness ==
    /\ rqPc = "done"
    /\ \E i \in Ran({"settle"}) : trail[i].how = "reject"
    /\ err = Error("Error", "boom")
    /\ res = Responded(500, <<"error", "Error: boom">>)

(* C10: the error handler runs at most once for a request, and never once  *)
(* a response was sent for it.                                             *)
C10_ErrorStageOnceNeverAfterSent ==
    /\ Cardinality(Ran({"error"})) <= 1
    /\ \A i \in Ran({"error"}) : trail[i].how # "afterSent"

----------------------------------------------------------------------------
(* Registry properties *)

HasDuplicates(rd) ==
    \E i, j \in 1..Len(rd) :
        i # j /\ rd[i].path = rd[j].path /\ rd[i].method = rd[j].method

(* C11: an Api that got as far as running has no (path, method) declared   *)
(* twice, and every declaration has its own entry in the index: building   *)
(* the registry from a list with a repeated pair would have failed.        *)
C11_DuplicateRoutesRefused ==
    running =>
       /\ ~HasDuplicates(routeData)
       /\ Cardinality(DOMAIN handlerMap) = Len(handlers)

----------------------------------------------------------------------------
(* CORS properties *)

CorsDecided == \E i \in 1..Len(trail) : trail[i].stage = "cors"

CorsPermitted ==
    \E i \in 1..Len(trail) :
        trail[i].stage = "cors" /\ trail[i].how \in {"pass", "preflight"}

StartsWithLocalhost(o) == Len(o.text) >= 1 /\ o.text[1] = "http://localhost"

(* C12 as stated: the CORS stage lets a request through exactly when its   *)
(* Origin header is absent, is in the allow-list, or starts with           *)
(* http://localhost.                                                       *)
C12_OriginRule ==
    CorsDecided =>
       (CorsPermitted <=> \/ ~req.origin.present
                          \/ req.origin.text \in CORS_WHITELIST
                          \/ StartsWithLocalhost(req.origin))

(* C12: the CORS stage lets a request through exactly when its Origin      *)
(* header is absent or empty, is in the allow-list, or starts with         *)
(* http://localhost; every other origin is refused.                        *)
C12_OriginRuleOrEmpty ==
    CorsDecided =>
       (CorsPermitted <=> \/ ~req.origin.present
                          \/ req.origin.present /\ req.origin.text = <<>>
                          \/ req.origin.text \in CORS_WHITELIST
                          \/ StartsWithLocalhost(req.origin))

C12_Witness ==
    /\ CorsPermitted
    /\ req.origin = Origin(<<"http://localhost", ".evil.example">>)
    /\ rqPc = "done"
    /\ res.status = 200

(* C13: once the CORS stage has refused a request, neither the logging     *)
(* stage, the guard stage, body parsing nor a handler runs for it, and     *)
(* the refused origin is in the log as an error entry.                     *)
C13_RefusedGoesNoFurther ==
    (\E i \in 1..Len(trail) :
         trail[i].stage = "cors" /\ trail[i].how = "refused") =>
       /\ Ran({"logging", "guard", "json", "handler", "settle"}) = {}
       /\ guardLog = <<>>
       /\ matched = 0
       /\ \E k \in 1..Len(log) :
             /\ log[k].level = "error"
             /\ log[k].msg = <<"Request with origin of">> \o req.origin.text
                             \o <<"is not allowed by CORS!">>

C13_Witness ==
    /\ \E i \in 1..Len(trail) :
          trail[i].stage = "cors" /\ trail[i].how = "refused"
    /\ req.origin = Origin(<<"http://evil.example">>)
    /\ req.method = "POST"
    /\ rqPc = "done"
    /\ res.sent

----------------------------------------------------------------------------
(* Body parsing properties *)

BodyRefused(how) ==
    \E i \in 1..Len(trail) : trail[i].stage = "json" /\ trail[i].how = how

(* C14: a request whose body the parser refuses is answered with a         *)
(* client-error status, 400 for a malformed body and 413 for an oversized  *)
(* one, and no handler runs for it.                                        *)
C14_BadBodyIsClientError ==
    /\ BodyRefused("malformed") \/ BodyRefused("oversized") =>
           Ran({"handler", "settle"}) = {}
    /\ rqPc = "done" /\ BodyRefused("malformed") => res.sent /\ res.status = 400
    /\ rqPc = "done" /\ BodyRefused("oversized") => res.sent /\ res.status = 413

----------------------------------------------------------------------------
(* Guard lookup properties *)

Takes(i) ==
    /\ routeMatchTest(handlers[i].routeMatchTest, req.path)
    /\ handlers[i].method = req.method

(* C15: the route the guard stage selects is the declaration of smallest   *)
(* index whose matcher takes the request's path and whose method is the    *)
(* request's, also when later declarations take the request too; the       *)
(* guards evaluated are that declaration's.                                *)
C15_FirstMatchWins ==
    matched # 0 =>
       /\ Takes(matched)
       /\ \A j \in 1..(matched - 1) : ~Takes(j)
       /\ \A k \in 1..Len(guardLog) :
             /\ k <= Len(handlers[matched].guards)
             /\ guardLog[k].guard = handlers[matched].guards[k]

C15_Witness ==
    /\ routeData = OverlappingRoutes
    /\ req.method = "GET"
    /\ req.path = <<"secret">>
    /\ Takes(2) /\ Takes(3)
    /\ matched = 1
    /\ guardLog = <<[guard |-> "keyGuard", outcome |-> "permit"]>>
    /\ rqPc = "done"

DeniedWithoutStatus ==
    \E k \in 1..Len(guardLog) :
        /\ guardLog[k].outcome = "deny"
        /\ GuardDenial(guardLog[k].guard).statusCode = <<>>

(* C16: after a guard denied access without giving a status code, no       *)
(* handler runs, the process is up, the request is on its way to the       *)
(* error handler or finished, and once finished its answer is a 500.       *)
C16_DenialWithoutStatusIs500 ==
    DeniedWithoutStatus =>
       /\ Ran({"handler", "settle"}) = {}
       /\ ~crashed
       /\ rqPc \in {"dispatch", "done"}
       /\ rqPc = "dispatch" => err # NoError /\ ~res.sent
       /\ rqPc = "done" => res.sent /\ res.status = 500

C16_Witness ==
    /\ DeniedWithoutStatus
    /\ req.method = "POST"
    /\ req.path = <<"secret">>
    /\ rqPc = "done"
    /\ res = Responded(500, <<"error",
                 "RangeError: Invalid status code: undefined">>)

----------------------------------------------------------------------------
(* Logging stage properties *)

LoggingPassed ==
    /\ Len(trail') = Len(trail) + 1
    /\ trail'[Len(trail')].stage = "logging"
    /\ trail'[Len(trail')].how = "pass"

(* C17: a step of the logging stage that did not fail leaves the response  *)
(* as it was, raises no error, and calls next() once: the request goes     *)
(* from the logging layer to the layer after it, the guard stage, and the  *)
(* logging stage has run once for the request.                             *)
C17_LoggingOnlyObserves ==
    [][LoggingPassed =>
          /\ req.ip.present
          /\ res' = res
          /\ ~res'.sent
          /\ err' = NoError
          /\ rqPc' = "dispatch"
          /\ httpServer[Here].kind = "logging"
          /\ cursor' = Here + 1
          /\ httpServer[NextIdx(cursor', req', err')].kind = "guard"
          /\ Cardinality({i \in 1..Len(trail') :
                             trail'[i].stage = "logging"}) = 1]_vars

C17_Witness ==
    /\ trail # <<>>
    /\ trail[Len(trail)] = Entry("logging", 0, "pass")
    /\ req.ip = Ip(<<"::ffff:", "203.0.113.5">>)
    /\ req.method = "DELETE"
    /\ log # <<>>
    /\ log[Len(log)].level = "info"
    /\ log[Len(log)].msg = <<"Recieved request for", "DELETE">> \o req.path
                           \o <<"from", "203.0.113.5">>
    /\ res = NoResponse
    /\ rqPc = "dispatch"

----------------------------------------------------------------------------
(* Registry frame *)

(* C18: no step of start() or of request processing changes the route      *)
(* list, the handlers with their compiled matchers, or the (path, method)  *)
(* index; they stay what the constructor built.                            *)
C18_RegistryImmutable ==
    [][/\ UNCHANGED <<routeData, handlers, handlerMap>>
       /\ handlers' = MakeHandlers(routeData)
       /\ handlerMap' = MakeHandlerMap(handlers)]_vars

C18_Witness ==
    /\ initCalls = 1
    /\ startPc[1] = "done"
    /\ rqPc = "done"
    /\ matched = 3
    /\ Ran({"handler"}) # {}
    /\ handlers = MakeHandlers(routeData)
    /\ handlerMap = MakeHandlerMap(handlers)
    /\ Len(handlers) = 4

----------------------------------------------------------------------------
(* Guard lookup against express dispatch *)

(* C19: the route whose handler express invokes for a request is the       *)
(* route the guard stage selected and whose guards it evaluated, also      *)
(* when several declarations take the request; one handler is invoked.     *)
C19_HandlerIsGuardedRoute ==
    \A i \in Ran({"handler"}) :
        /\ matched # 0
        /\ trail[i].route = matched
        /\ AllPermitted(matched)
        /\ Cardinality(Ran({"handler"})) = 1

C19_Witness ==
    /\ routeData = OverlappingRoutes
    /\ req.method = "GET"
    /\ req.path = <<"secret">>
    /\ Takes(1) /\ Takes(2) /\ Takes(3)
    /\ guardLog = <<[guard |-> "keyGuard", outcome |-> "permit"]>>
    /\ \E i \in Ran({"handler"}) :
          /\ trail[i].route = 1
          /\ handlers[trail[i].route].routeImplementation = "getSecret"
    /\ rqPc = "done"
    /\ res.status = 200

----------------------------------------------------------------------------
(* stop() resolves *)

(* C20: whenever running is true the stored server handle is defined, so   *)
(* stop() never awaits a promise that nothing resolves; and every stop()   *)
(* that was called resolves, as long as the process is there to run the    *)
(* close callback, also when it was called while a start() was unresolved. *)
C20_StopResolves ==
    /\ [](running => runningServer # NoServer)
    /\ [](\A c \in StopCalls : stopPc[c] # "hung")
    /\ \A c \in StopCalls :
          (stopPc[c] # "idle") ~> (stopPc[c] = "done" \/ crashed)

C20_Witness ==
    /\ startPc[1] = "awaitListen"
    /\ stopPc[1] = "done"
    /\ stopTarget[1] = startTarget[1]
    /\ stopTarget[1] # NoServer
    /\ servers[stopTarget[1]] = "closed"
    /\ ~running
    /\ ~crashed

====
